---- MODULE Spec2Model ----
(***************************************************************************)
(* A model of the RPG Maker MV "Logging" plugin (src/Logging.js): the      *)
(* level registry, the Logger dispatcher, the console and file handlers    *)
(* with their asynchronous file-system callbacks, and the bootstrap        *)
(* (initialize / createLogger / resolveToLocalPath).                       *)
(*                                                                         *)
(* JavaScript values that may be a number, a string or undefined are       *)
(* records [t, n, s] tagged with their typeof.  Strings that the code      *)
(* inspects character by character (the "Log Directory" parameter) are     *)
(* tuples of one-character strings; file-system paths are tuples of        *)
(* segment names below the file-system root.                               *)
(***************************************************************************)
EXTENDS Integers, Sequences, FiniteSets, TLC

\* ------------------------------------------------------------------------
\* Bounds of the model
\* ------------------------------------------------------------------------
MaxPathLen  == 5    \* longest "Log Directory" value enumerated, in characters
MaxHandlers == 4    \* longest handler list of the Logger
MaxLogs     == 2    \* number of Logger.log calls in a run
MaxRank     == 41   \* largest number the level functions are applied to

\* ------------------------------------------------------------------------
\* JavaScript values
\* ------------------------------------------------------------------------
Num(n) == [t |-> "number", n |-> n, s |-> ""]
Str(s) == [t |-> "string", n |-> 0, s |-> s]
Undefined == [t |-> "undefined", n |-> 0, s |-> ""]
Null == [t |-> "object", n |-> 0, s |-> ""]

\* The result of a call: a returned value, or a thrown Error.
Return(v) == [ok |-> TRUE, val |-> v]
Throw(msg) == [ok |-> FALSE, val |-> Str(msg)]

\* ------------------------------------------------------------------------
\* LogLevel (src/Logging.js 76-126)
\* ------------------------------------------------------------------------
LogLevel_DEBUG == 10
LogLevel_INFO == 20
LogLevel_WARN == 30
LogLevel_WARNING == LogLevel_WARN
LogLevel_ERROR == 40
LogLevel_ALL == 0

\* A faulty variant of _levelToName: the branch of ALL is missing.
levelToName_noAll(level) ==
  IF level = Num(LogLevel_DEBUG) THEN Return(Str("DEBUG"))
  ELSE IF level = Num(LogLevel_ERROR) THEN Return(Str("ERROR"))
  ELSE IF level = Num(LogLevel_INFO) THEN Return(Str("INFO"))
  ELSE IF level = Num(LogLevel_WARN) THEN Return(Str("WARN"))
  ELSE Throw("Unknown level")

\* _levelToName: strict equality against the five ranks, else throws.
levelToName(level) ==
  IF level = Num(LogLevel_ALL) THEN Return(Str("ALL"))
  ELSE IF level = Num(LogLevel_DEBUG) THEN Return(Str("DEBUG"))
  ELSE IF level = Num(LogLevel_ERROR) THEN Return(Str("ERROR"))
  ELSE IF level = Num(LogLevel_INFO) THEN Return(Str("INFO"))
  ELSE IF level = Num(LogLevel_WARN) THEN Return(Str("WARN"))
  ELSE Throw("Unknown level")

\* The object literal `map` of _nameToLevel.
LevelMap ==
  [ALL |-> LogLevel_ALL, DEBUG |-> LogLevel_DEBUG, ERROR |-> LogLevel_ERROR,
   INFO |-> LogLevel_INFO, WARN |-> LogLevel_WARN, WARNING |-> LogLevel_WARNING]

\* A faulty variant of _nameToLevel: the map has no key WARNING.
nameToLevel_noAlias(level) ==
  IF level.t = "string" /\ level.s \in DOMAIN LevelMap \ {"WARNING"}
  THEN Return(Num(LevelMap[level.s]))
  ELSE Return(Undefined)

\* _nameToLevel: map[level]; a key the map lacks reads as undefined, and
\* nothing is thrown.
nameToLevel(level) ==
  IF level.t = "string" /\ level.s \in DOMAIN LevelMap
  THEN Return(Num(LevelMap[level.s]))
  ELSE Return(Undefined)

\* _checkLevel: a number passes through, a string goes through
\* _nameToLevel, any other type throws.
checkLevel(level) ==
  IF level.t = "number" THEN Return(level)
  ELSE IF level.t = "string" THEN nameToLevel(level)
  ELSE Throw("Level unrecognized.")

\* this.level <= level, as JavaScript compares: undefined converts to NaN
\* and every comparison with NaN is false.
LessEq(a, b) == a.t = "number" /\ b.t = "number" /\ a.n <= b.n

\* ------------------------------------------------------------------------
\* resolveToLocalPath (src/Logging.js 400-403) and path.resolve
\* ------------------------------------------------------------------------
\* The class [\/\\] of the pattern.
IsSep(c) == c \in {"/", "\\"}

Max(S) == CHOOSE x \in S : \A y \in S : y <= x

\* One match of /[\/\\]?(?:.+[\/\\]+?)?(.+?)[\/\\]?/ attempted with the
\* leading [\/\\]? having consumed up to q-1 (q <= Len(s)).  The optional
\* group is tried first: the greedy .+ backtracks from the longest run to
\* the last separator r that still leaves a character for (.+?), and the
\* lazy [\/\\]+? takes that one separator.  Without such a separator the
\* group is skipped.  The lazy (.+?) captures one character ("." matches a
\* separator as well) and the trailing [\/\\]? takes a separator if one
\* follows.  [cap: index of the captured character, end: first index after
\* the match].
MatchFrom(s, q) ==
  LET R == {r \in (q + 1)..(Len(s) - 1) : IsSep(s[r])}
      c == IF R # {} THEN Max(R) + 1 ELSE q
  IN [cap |-> c,
      end |-> IF c + 1 <= Len(s) /\ IsSep(s[c + 1]) THEN c + 2 ELSE c + 1]

\* The match that starts at index p <= Len(s): the leading [\/\\]? is
\* greedy, and gives its separator back only when nothing follows it.
MatchAt(s, p) ==
  IF IsSep(s[p]) /\ p + 1 <= Len(s) THEN MatchFrom(s, p + 1)
  ELSE MatchFrom(s, p)

\* String.prototype.replace with the global flag: every successive match
\* is replaced by "$1", its captured character.
RECURSIVE ReplaceAll(_, _)
ReplaceAll(s, p) ==
  IF p > Len(s) THEN <<>>
  ELSE LET m == MatchAt(s, p)
       IN <<s[m.cap]>> \o ReplaceAll(s, m.end)

resolveToLocalPath(filePath) == ReplaceAll(filePath, 1)

\* The separators path.resolve knows on each platform.
PathSeps(platform) == IF platform = "win32" THEN {"/", "\\"} ELSE {"/"}

\* The segments of a path string: split at the platform's separators.
RECURSIVE SplitFrom(_, _, _, _)
SplitFrom(s, i, cur, seps) ==
  IF i > Len(s) THEN <<cur>>
  ELSE IF s[i] \in seps THEN <<cur>> \o SplitFrom(s, i + 1, "", seps)
  ELSE SplitFrom(s, i + 1, cur \o s[i], seps)

Split(s, platform) == SplitFrom(s, 1, "", PathSeps(platform))

\* Normalisation of an absolute path: "" and "." are dropped, ".." removes
\* the last segment kept so far and is dropped at the root.
RECURSIVE NormalizeFrom(_, _, _)
NormalizeFrom(base, segs, i) ==
  IF i > Len(segs) THEN base
  ELSE IF segs[i] \in {"", "."} THEN NormalizeFrom(base, segs, i + 1)
  ELSE IF segs[i] = ".."
  THEN NormalizeFrom(IF base = <<>> THEN <<>> ELSE SubSeq(base, 1, Len(base) - 1),
                     segs, i + 1)
  ELSE NormalizeFrom(Append(base, segs[i]), segs, i + 1)

\* path.resolve(root, "./", dir): arguments are taken from the right until
\* an absolute one is met, so a dir that starts with a separator replaces
\* the root; the result is normalised.
pathResolve(root, dir, platform) ==
  IF dir # <<>> /\ dir[1] \in PathSeps(platform)
  THEN NormalizeFrom(<<>>, Split(dir, platform), 1)
  ELSE NormalizeFrom(root, Split(dir, platform), 1)

\* The project root, as fs.realpathSync(getGameDirectory()) returns it.
RootPath == <<"home", "game">>

\* p is root or lies below it.
IsWithin(root, p) == Len(p) >= Len(root) /\ SubSeq(p, 1, Len(root)) = root

\* ------------------------------------------------------------------------
\* State
\* ------------------------------------------------------------------------
VARIABLES
  parameters,         \* PluginManager.parameters("Logging"): console, file, directory, level
  platform,           \* the platform of Node's path module: "posix" or "win32"
  pc,                 \* position of the bootstrap: load, realpath, resolve, access, end, aborted
  PluginState,        \* Logging.PluginState
  Paths,              \* Logging.Paths: no field, or root_path and logs_path
  logging_directory,  \* the variable logging_directory as line 351 leaves it
  Level,              \* Logging.Level
  logger,             \* Logging.logger: Undefined, or [t, _handlers, level]
  fileHandler,        \* the FileStreamHandler: Undefined, or [t, _ready]
  io,                 \* file-system requests in flight: [op, id, buf]
  disk,               \* the log file: the buffers appended, in order, each with the id of its request
  fds,                \* ids of the requests whose file descriptor is open
  dirExists,          \* whether the logs directory exists
  uncaught,           \* the errors thrown out of a callback (or of the load) into the host: [tag, id]
  hostAlive,          \* FALSE once the host has stopped on an uncaught error
  ev,                 \* the last call made, with what it did (the spy)
  nlogs,              \* number of Logger.log calls made
  nextId              \* number of FileStreamHandler.write requests issued

vars == <<parameters, platform, pc, PluginState, Paths, logging_directory, Level,
          logger, fileHandler, io, disk, fds, dirExists, uncaught, hostAlive, ev,
          nlogs, nextId>>

\* The variables of the program, without the spy and the counters.
progVars == <<parameters, platform, pc, PluginState, Paths, logging_directory,
              Level, logger, fileHandler, io, disk, fds, dirExists, uncaught,
              hostAlive>>

\* ------------------------------------------------------------------------
\* Plugin parameters (src/Logging.js 163-169)
\* ------------------------------------------------------------------------
\* Boolean(p || "true") for a string p: "" is replaced by "true", and any
\* non-empty string converts to true.
ToBoolean(p) == (IF p = "" THEN "true" ELSE p) # ""

logging_enable_console_logger == ToBoolean(parameters.console)
logging_enable_file_logger == ToBoolean(parameters.file)
\* String(p || "INFO")
logging_log_level == IF parameters.level = "" THEN "INFO" ELSE parameters.level

\* util.format("%s [%s] - %s", date, name, message)
Format(date, name, message) == date \o " [" \o name \o "] - " \o message

\* An error thrown where no caller catches it (tag: where it was thrown,
\* id: the request whose callback threw): it reaches the host, which may
\* go on or stop.
Escapes(tag, id) ==
  /\ uncaught' = uncaught \cup {[tag |-> tag, id |-> id]}
  /\ hostAlive' \in BOOLEAN

NoEv == [op |-> "none"]
\* What the spy holds after a file-system callback.
IoEv == [op |-> "io"]
\* What the spy holds after the callback of an fs.write: the descriptors
\* that were open when it ran.
WriteEv(open) == [op |-> "io", fds |-> open]

\* ------------------------------------------------------------------------
\* Logger and handlers: construction (src/Logging.js 178-194, 243-302)
\* ------------------------------------------------------------------------
\* new Logger(): Logger.prototype.initialize.
NewLogger == [t |-> "Logger", _handlers |-> <<>>, level |-> Num(LogLevel_INFO)]

\* A faulty variant of addHandler: the handler is put in front.
addHandler_front(lg, handler) == [lg EXCEPT !._handlers = <<handler>> \o @]

\* Logger.prototype.addHandler: push at the end.
addHandler(lg, handler) == [lg EXCEPT !._handlers = Append(@, handler)]

\* Logger.prototype.setLevel: the level is whatever _checkLevel returns;
\* when _checkLevel throws, so does setLevel and nothing is assigned.
setLevel(lg, level) ==
  LET rv == checkLevel(level)
  IN IF rv.ok THEN Return([lg EXCEPT !.level = rv.val]) ELSE rv

\* The request of the initial fs.open of a FileStreamHandler, and of the
\* requests that a write makes.
InitOpen == [op |-> "open", id |-> 0, buf |-> ""]
WriteOpen(id, buf) == [op |-> "open", id |-> id, buf |-> buf]
WriteReq(id, buf) == [op |-> "write", id |-> id, buf |-> buf]
AccessReq == [op |-> "access", id |-> 0, buf |-> ""]
MkdirReq == [op |-> "mkdir", id |-> 0, buf |-> ""]

\* new FileStreamHandler(fileName): not ready, and an fs.open in flight.
NewFileStreamHandler == [t |-> "FileStreamHandler", _ready |-> FALSE]

\* createLogger(name, level): a Logger at that level, with a
\* ConsoleHandler and a FileStreamHandler as the two flags say.  The
\* result is the Logger, whether a FileStreamHandler was made, or the
\* error setLevel threw.
createLogger(level) ==
  LET r == setLevel(NewLogger, level)
      l1 == IF logging_enable_console_logger
            THEN addHandler(r.val, "console") ELSE r.val
      l2 == IF logging_enable_file_logger THEN addHandler(l1, "file") ELSE l1
  IN IF r.ok
     THEN [ok |-> TRUE, val |-> l2, file |-> logging_enable_file_logger]
     ELSE [ok |-> FALSE, val |-> r.val, file |-> FALSE]

\* ------------------------------------------------------------------------
\* Bootstrap: initialize() (src/Logging.js 330-364)
\* ------------------------------------------------------------------------
\* Lines 332-338: the state, the level and the format.
Initialize_Begin ==
  /\ hostAlive /\ pc = "load"
  /\ PluginState' = "initializing"
  /\ Level' = nameToLevel(Str(logging_log_level)).val
  /\ pc' = "realpath"
  /\ UNCHANGED <<parameters, platform, Paths, logging_directory, logger,
                 fileHandler, io, disk, fds, dirExists, uncaught, hostAlive, ev,
                 nlogs, nextId>>

\* Lines 344-346: fs.realpathSync returns the root, or throws and ends
\* initialize() there.
Initialize_RealPath ==
  /\ hostAlive /\ pc = "realpath"
  /\ \/ /\ Paths' = [root_path |-> RootPath, logs_path |-> RootPath]
        /\ pc' = "resolve"
        /\ UNCHANGED <<uncaught, hostAlive>>
     \/ /\ pc' = "aborted"
        /\ Escapes("realpath", 0)
        /\ UNCHANGED Paths
  /\ UNCHANGED <<parameters, platform, PluginState, logging_directory, Level,
                 logger, fileHandler, io, disk, fds, dirExists, ev, nlogs, nextId>>

\* Lines 349-356: the logs path, and the fs.access request.
Initialize_ResolveLogsPath ==
  /\ hostAlive /\ pc = "resolve"
  /\ PluginState' = "resolving_logs_path"
  /\ IF logging_directory # <<>>
     THEN /\ logging_directory' = resolveToLocalPath(logging_directory)
          /\ Paths' = [Paths EXCEPT !.logs_path =
                         pathResolve(Paths.root_path, logging_directory', platform)]
     ELSE UNCHANGED <<logging_directory, Paths>>
  /\ io' = io \cup {AccessReq}
  /\ pc' = "access"
  /\ UNCHANGED <<parameters, platform, Level, logger, fileHandler, disk, fds,
                 dirExists, uncaught, hostAlive, ev, nlogs, nextId>>

\* A faulty variant of AccessCallback: the state becomes DONE even when
\* createLogger has thrown.
AccessCallback_doneAnyway ==
  /\ hostAlive /\ AccessReq \in io
  /\ pc' = "end"
  /\ PluginState' = "done"
  /\ LET mk == IF dirExists THEN {} ELSE {MkdirReq}
         r == createLogger(Level)
     IN IF r.ok
        THEN /\ logger' = r.val
             /\ fileHandler' = IF r.file THEN NewFileStreamHandler ELSE fileHandler
             /\ io' = ((io \ {AccessReq}) \cup mk)
                        \cup (IF r.file THEN {InitOpen} ELSE {})
             /\ UNCHANGED <<uncaught, hostAlive>>
        ELSE /\ io' = (io \ {AccessReq}) \cup mk
             /\ Escapes("createLogger", 0)
             /\ UNCHANGED <<logger, fileHandler>>
  /\ UNCHANGED <<parameters, platform, Paths, logging_directory, Level, disk, fds,
                 dirExists, ev, nlogs, nextId>>

\* Lines 356-363, the callback of fs.access: on an error fs.mkdir is
\* requested (and not waited for); then the default Logger is created and
\* the state becomes DONE.  When createLogger throws, the callback ends
\* there.
AccessCallback ==
  /\ hostAlive /\ AccessReq \in io
  /\ pc' = "end"
  /\ LET mk == IF dirExists THEN {} ELSE {MkdirReq}
         r == createLogger(Level)
     IN IF r.ok
        THEN /\ logger' = r.val
             /\ fileHandler' = IF r.file THEN NewFileStreamHandler ELSE fileHandler
             /\ io' = ((io \ {AccessReq}) \cup mk)
                        \cup (IF r.file THEN {InitOpen} ELSE {})
             /\ PluginState' = "done"
             /\ UNCHANGED <<uncaught, hostAlive>>
        ELSE /\ io' = (io \ {AccessReq}) \cup mk
             /\ Escapes("createLogger", 0)
             /\ UNCHANGED <<logger, fileHandler, PluginState>>
  /\ UNCHANGED <<parameters, platform, Paths, logging_directory, Level, disk, fds,
                 dirExists, ev, nlogs, nextId>>

\* fs.mkdir(path) completes: the directory exists, or the error is
\* rethrown by the default callback.
MkdirDone ==
  /\ hostAlive /\ MkdirReq \in io
  /\ ev' = IoEv
  /\ io' = io \ {MkdirReq}
  /\ \/ /\ dirExists' = TRUE
        /\ UNCHANGED <<uncaught, hostAlive>>
     \/ /\ Escapes("mkdir", 0)
        /\ UNCHANGED dirExists
  /\ UNCHANGED <<parameters, platform, pc, PluginState, Paths, logging_directory,
                 Level, logger, fileHandler, disk, fds, nlogs, nextId>>

\* ------------------------------------------------------------------------
\* FileStreamHandler: the callbacks (src/Logging.js 295-301, 308-318)
\* ------------------------------------------------------------------------
\* The callback of the initial fs.open (lines 295-301): on an error it
\* throws; otherwise the handler is ready and the descriptor is closed.
\* An open in a directory that does not exist cannot succeed.
InitOpenCallback ==
  /\ hostAlive /\ InitOpen \in io
  /\ ev' = IoEv
  /\ io' = io \ {InitOpen}
  /\ \/ /\ dirExists
        /\ fileHandler' = [fileHandler EXCEPT !._ready = TRUE]
        /\ UNCHANGED <<uncaught, hostAlive>>
     \/ /\ Escapes("init_open", 0)
        /\ UNCHANGED fileHandler
  /\ UNCHANGED <<parameters, platform, pc, PluginState, Paths, logging_directory,
                 Level, logger, disk, fds, dirExists, nlogs, nextId>>

\* A faulty variant of WriteOpenCallback: a single-writer discipline, the
\* file is opened only while no other descriptor is open.
WriteOpenCallback_serial(r) ==
  /\ hostAlive /\ r \in io /\ r.op = "open" /\ r.id > 0
  /\ fds = {}
  /\ ev' = IoEv
  /\ \/ /\ dirExists
        /\ io' = (io \ {r}) \cup {WriteReq(r.id, r.buf)}
        /\ fds' = fds \cup {r.id}
        /\ UNCHANGED <<uncaught, hostAlive>>
     \/ /\ io' = io \ {r}
        /\ Escapes("write_open", r.id)
        /\ UNCHANGED fds
  /\ UNCHANGED <<parameters, platform, pc, PluginState, Paths, logging_directory,
                 Level, logger, fileHandler, disk, dirExists, nlogs, nextId>>

\* The callback of a write's fs.open (lines 308-312): on an error it
\* throws; otherwise the descriptor is open and fs.write is requested.
WriteOpenCallback(r) ==
  /\ hostAlive /\ r \in io /\ r.op = "open" /\ r.id > 0
  /\ ev' = IoEv
  /\ \/ /\ dirExists
        /\ io' = (io \ {r}) \cup {WriteReq(r.id, r.buf)}
        /\ fds' = fds \cup {r.id}
        /\ UNCHANGED <<uncaught, hostAlive>>
     \/ /\ io' = io \ {r}
        /\ Escapes("write_open", r.id)
        /\ UNCHANGED fds
  /\ UNCHANGED <<parameters, platform, pc, PluginState, Paths, logging_directory,
                 Level, logger, fileHandler, disk, dirExists, nlogs, nextId>>

\* A faulty variant of WriteCallback: the buffer is appended twice.
WriteCallback_twice(r) ==
  /\ hostAlive /\ r \in io /\ r.op = "write"
  /\ ev' = IoEv
  /\ io' = io \ {r}
  /\ disk' = disk \o <<[id |-> r.id, buf |-> r.buf], [id |-> r.id, buf |-> r.buf]>>
  /\ fds' = fds \ {r.id}
  /\ UNCHANGED <<parameters, platform, pc, PluginState, Paths, logging_directory,
                 Level, logger, fileHandler, dirExists, uncaught, hostAlive, nlogs,
                 nextId>>

\* The callback of fs.write (lines 312-317): the buffer has been appended
\* (the file is open in append mode) and the descriptor is closed; on an
\* error the callback throws and leaves the descriptor open.
WriteCallback(r) ==
  /\ hostAlive /\ r \in io /\ r.op = "write"
  /\ ev' = WriteEv(fds)
  /\ io' = io \ {r}
  /\ \/ /\ disk' = Append(disk, [id |-> r.id, buf |-> r.buf])
        /\ fds' = fds \ {r.id}
        /\ UNCHANGED <<uncaught, hostAlive>>
     \/ /\ Escapes("write", r.id)
        /\ UNCHANGED <<disk, fds>>
  /\ UNCHANGED <<parameters, platform, pc, PluginState, Paths, logging_directory,
                 Level, logger, fileHandler, dirExists, nlogs, nextId>>

\* ------------------------------------------------------------------------
\* Handlers: write (src/Logging.js 235-237, 258-266, 304-320)
\* ------------------------------------------------------------------------
\* The handlers a Logger may hold: the ConsoleHandler and the
\* FileStreamHandler of createLogger, and a handler of the application
\* whose write throws.  (A LogHandler, the base, has a write that does
\* nothing: HandlerWrite gives it no effect.)
HandlerKinds == {"console", "file", "faulty"}

\* ConsoleHandler.prototype.write(message, level): the stream of the
\* level, when level is one of the four, and then console.log; each
\* entry is [stream, text].  console exists, so _ready is true.
ConsoleWrite(message, level) ==
  (IF level = Num(LogLevel_DEBUG) THEN <<[stream |-> "debug", text |-> message]>>
   ELSE IF level = Num(LogLevel_INFO) THEN <<[stream |-> "info", text |-> message]>>
   ELSE IF level = Num(LogLevel_WARN) THEN <<[stream |-> "warn", text |-> message]>>
   ELSE IF level = Num(LogLevel_ERROR) THEN <<[stream |-> "error", text |-> message]>>
   ELSE <<>>)
  \o <<[stream |-> "log", text |-> message]>>

\* A faulty variant of FileWrite: a write is requested whether or not the
\* handler is ready.
FileWrite_ignoreReady(fh, message) == <<message \o "\n">>

\* FileStreamHandler.prototype.write(message, level): when ready, one
\* fs.open request carrying the buffer message + "\n"; otherwise nothing.
FileWrite(fh, message) == IF fh._ready THEN <<message \o "\n">> ELSE <<>>

\* handler.write(message, level) for a handler of each kind: whether it
\* threw, what it sent to the console, the buffers it asked to append.
HandlerWrite(h, fh, message, level) ==
  [threw |-> h = "faulty",
   console |-> IF h = "console" THEN ConsoleWrite(message, level) ELSE <<>>,
   opens |-> IF h = "file" THEN FileWrite(fh, message) ELSE <<>>]

\* this._handlers.forEach(function (handler) { handler.write(formatted); })
\* from handler i on: the handlers are called in order with the one string
\* (and no level); a handler that throws ends the loop, and the error
\* leaves log.  acc is [writes, console, opens, threw] so far.
RECURSIVE ForEachWrite(_, _, _, _, _)
ForEachWrite(hs, i, fh, formatted, acc) ==
  IF i > Len(hs) THEN acc
  ELSE LET r == HandlerWrite(hs[i], fh, formatted, Undefined)
           next == [writes |-> Append(acc.writes, [pos |-> i, text |-> formatted]),
                    console |-> acc.console \o r.console,
                    opens |-> acc.opens \o r.opens,
                    threw |-> r.threw]
       IN IF r.threw THEN next ELSE ForEachWrite(hs, i + 1, fh, formatted, next)

NoWrites == [writes |-> <<>>, console |-> <<>>, opens |-> <<>>, threw |-> FALSE]

\* A faulty variant of LogOutcome: no gate at all.
LogOutcome_noGate(lg, fh, level, message, date) ==
  LET nm == levelToName(Num(level))
  IN IF nm.ok
     THEN ForEachWrite(lg._handlers, 1, fh, Format(date, nm.val.s, message), NoWrites)
     ELSE [NoWrites EXCEPT !.threw = TRUE]

\* Logger.prototype.log(level, message), with date the value of new Date():
\* behind the gate this.level <= level the record is formatted once
\* (_levelToName may throw) and handed to every handler.
LogOutcome(lg, fh, level, message, date) ==
  LET nm == levelToName(Num(level))
  IN IF LessEq(lg.level, Num(level))
     THEN IF nm.ok
          THEN ForEachWrite(lg._handlers, 1, fh, Format(date, nm.val.s, message), NoWrites)
          ELSE [NoWrites EXCEPT !.threw = TRUE]
     ELSE NoWrites

\* ------------------------------------------------------------------------
\* Logger: the calls of the application (src/Logging.js 188-221)
\* ------------------------------------------------------------------------
\* The levels log is called with: the four of debug/info/warn/error, and
\* a number that is no rank.
LogLevels == {LogLevel_DEBUG, LogLevel_INFO, LogLevel_WARN, LogLevel_ERROR, 25}
Messages == {"x"}

\* new Date().toISOString(): the clock, which the model advances by one
\* tick with every call of log.
Now == "T" \o ToString(nlogs + 1)

\* What setLevel is called with: names of the map, names the map lacks,
\* a number that is a rank and one that is not, and values of other types.
LevelNames == {"ALL", "DEBUG", "INFO", "WARN", "WARNING", "ERROR"}
SetLevelInputs ==
  {Str(n) : n \in {"DEBUG", "WARNING", "ERROR", "TRACE", "info"}}
    \cup {Num(n) : n \in {20, 99}}
    \cup {Undefined, Null}

Log(level, message) ==
  /\ hostAlive /\ logger.t = "Logger" /\ nlogs < MaxLogs
  /\ LET date == Now
         out == LogOutcome(logger, fileHandler, level, message, date)
     IN /\ io' = io \cup {WriteOpen(nextId + k, out.opens[k]) : k \in 1..Len(out.opens)}
        /\ nextId' = nextId + Len(out.opens)
        /\ ev' = [op |-> "log", level |-> level, message |-> message, date |-> date,
                  writes |-> out.writes, console |-> out.console, threw |-> out.threw]
  /\ nlogs' = nlogs + 1
  /\ UNCHANGED <<parameters, platform, pc, PluginState, Paths, logging_directory,
                 Level, logger, fileHandler, disk, fds, dirExists, uncaught, hostAlive>>

SetLevel(level) ==
  /\ hostAlive /\ logger.t = "Logger"
  /\ LET r == setLevel(logger, level)
     IN /\ logger' = IF r.ok THEN r.val ELSE logger
        /\ ev' = [op |-> "setLevel", arg |-> level, threw |-> ~r.ok]
  /\ UNCHANGED <<parameters, platform, pc, PluginState, Paths, logging_directory,
                 Level, fileHandler, io, disk, fds, dirExists, uncaught, hostAlive,
                 nlogs, nextId>>

AddHandler(h) ==
  /\ hostAlive /\ logger.t = "Logger" /\ Len(logger._handlers) < MaxHandlers
  /\ h = "file" => fileHandler.t = "FileStreamHandler"
  /\ logger' = addHandler(logger, h)
  /\ ev' = [op |-> "addHandler", arg |-> h]
  /\ UNCHANGED <<parameters, platform, pc, PluginState, Paths, logging_directory,
                 Level, fileHandler, io, disk, fds, dirExists, uncaught, hostAlive,
                 nlogs, nextId>>

\* ------------------------------------------------------------------------
\* Initial states and specifications
\* ------------------------------------------------------------------------
\* The parameters as the plugin header declares their defaults (lines 41-59).
DefaultParameters ==
  [console |-> "True", file |-> "True", directory |-> <<"l", "o", "g", "s">>,
   level |-> "INFO"]

Platforms == {"posix", "win32"}

\* The logs path that initialize() will compute from a directory parameter.
LogsPathOf(dir, pf) ==
  IF dir # <<>> THEN pathResolve(RootPath, resolveToLocalPath(dir), pf) ELSE RootPath

\* The plugin file has been evaluated up to the call of initialize(): the
\* parameters are read, nothing is set.  The project root exists, so a
\* logs path that is the root or above it exists; any other may or may not.
InitWith(P, PF) ==
  /\ parameters \in P
  /\ platform \in PF
  /\ pc = "load"
  /\ PluginState = "null"
  /\ Paths = <<>>
  /\ logging_directory = parameters.directory
  /\ Level = Undefined
  /\ logger = Undefined
  /\ fileHandler = Undefined
  /\ io = {}
  /\ disk = <<>>
  /\ fds = {}
  /\ dirExists \in (IF IsWithin(LogsPathOf(parameters.directory, platform), RootPath)
                    THEN {TRUE} ELSE BOOLEAN)
  /\ uncaught = {}
  /\ hostAlive = TRUE
  /\ nlogs = 0
  /\ nextId = 0

Init == InitWith({DefaultParameters}, {"win32"}) /\ ev = NoEv

Bootstrap ==
  \/ Initialize_Begin
  \/ Initialize_RealPath
  \/ Initialize_ResolveLogsPath
  \/ AccessCallback
  \/ MkdirDone
  \/ InitOpenCallback

\* The calls an application makes on the default Logger.
LoggerCalls ==
  \/ \E level \in LogLevels, message \in Messages : Log(level, message)
  \/ \E level \in SetLevelInputs : SetLevel(level)
  \/ \E h \in HandlerKinds : AddHandler(h)

\* The callbacks of the requests a FileStreamHandler.write makes.
WriteCallbacks ==
  \/ \E r \in io : WriteOpenCallback(r)
  \/ \E r \in io : WriteCallback(r)

\* Spec: the plugin loaded with its default parameters, and an application
\* that calls setLevel, addHandler and log on the default Logger.  The
\* callbacks of the write requests, which change nothing those calls read,
\* are left to SpecFile.
Next == Bootstrap \/ LoggerCalls

Spec == Init /\ [][Next]_vars

\* SpecFile: the plugin loaded with its default parameters, and an
\* application that logs through the default Logger as createLogger made
\* it, with every file-system callback.
NextFile ==
  \/ Bootstrap
  \/ WriteCallbacks
  \/ \E level \in LogLevels, message \in Messages : Log(level, message)

SpecFile == Init /\ [][NextFile]_vars

\* SpecFileFair: SpecFile with every callback of a request in flight
\* eventually run, as the event loop does while the host is alive.
SpecFileFair ==
  /\ SpecFile
  /\ WF_vars(Bootstrap)
  /\ \A id \in 1..MaxLogs : WF_vars(\E r \in io : r.id = id /\ WriteOpenCallback(r))
  /\ \A id \in 1..MaxLogs : WF_vars(\E r \in io : r.id = id /\ WriteCallback(r))

\* SpecBoot: the bootstrap alone, for every value of the parameters.
BoolParams == {"", "true", "false"}
LevelParams == {"", "DEBUG", "WARNING", "VERBOSE"}
DirParams == {<<>>, <<"l", "o", "g", "s">>, <<".", ".">>}
BootParameters ==
  [console : BoolParams, file : BoolParams, directory : DirParams,
   level : LevelParams]

InitBoot == InitWith(BootParameters, Platforms) /\ ev = NoEv

SpecBoot == InitBoot /\ [][Bootstrap]_vars

\* SpecBootFair: SpecBoot with every step of the bootstrap that can run
\* eventually run: initialize() runs to its end, and the event loop calls
\* back every request that completes.
SpecBootFair == SpecBoot /\ WF_vars(Bootstrap)

\* SpecPath: the bootstrap for every "Log Directory" of at most MaxPathLen
\* characters over a name character, the dot and the two separators, and
\* for three longer directories.
PathChars == {"a", ".", "/", "\\"}
PathInputs ==
  UNION {[1..n -> PathChars] : n \in 0..MaxPathLen}
    \cup {<<".", ".", "/", ".", ".", "/", "e", "t", "c">>,
          <<"a", "/", "b", "/", ".", ".", "/", "c">>,
          <<".", ".", "/", "s", "e", "c", "r", "e", "t", "/", "l", "o", "g", "s">>}
PathParameters ==
  [console : {"True"}, file : {"True"}, directory : PathInputs, level : {"INFO"}]

InitPath == InitWith(PathParameters, Platforms) /\ ev = NoEv

SpecPath == InitPath /\ [][Bootstrap]_vars

\* SpecLevel: the level functions applied to numbers, names and values of
\* other types; ev holds the argument, then the call and its result.
LevelArgs ==
  {Num(n) : n \in (-1)..MaxRank}
    \cup {Str(n) : n \in LevelNames \cup {"TRACE", "info", "Warn", ""}}
    \cup {Undefined, Null}

\* _levelToName(arg)
CallLevelToName ==
  /\ ev.op = "arg"
  /\ ev' = [op |-> "levelToName", arg |-> ev.arg, res |-> levelToName(ev.arg)]
  /\ UNCHANGED <<progVars, nlogs, nextId>>

\* _nameToLevel(arg), and _nameToLevel(_levelToName(arg)) when
\* _levelToName has returned.
CallNameToLevel ==
  /\ \/ /\ ev.op = "arg"
        /\ ev' = [op |-> "nameToLevel", arg |-> ev.arg, res |-> nameToLevel(ev.arg)]
     \/ /\ ev.op = "levelToName" /\ ev.res.ok
        /\ ev' = [op |-> "nameToLevel(levelToName)", arg |-> ev.arg,
                  res |-> nameToLevel(ev.res.val)]
  /\ UNCHANGED <<progVars, nlogs, nextId>>

\* _checkLevel(arg)
CallCheckLevel ==
  /\ ev.op = "arg"
  /\ ev' = [op |-> "checkLevel", arg |-> ev.arg, res |-> checkLevel(ev.arg)]
  /\ UNCHANGED <<progVars, nlogs, nextId>>

NextLevel == CallLevelToName \/ CallNameToLevel \/ CallCheckLevel

InitLevel ==
  /\ InitWith({DefaultParameters}, {"win32"})
  /\ dirExists
  /\ ev \in {[op |-> "arg", arg |-> a] : a \in LevelArgs}

SpecLevel == InitLevel /\ [][NextLevel]_vars

\* ------------------------------------------------------------------------
\* Properties
\* ------------------------------------------------------------------------
\* The five ranks.
Ranks == {LogLevel_ALL, LogLevel_DEBUG, LogLevel_INFO, LogLevel_WARN, LogLevel_ERROR}

\* A step that is a call of log: every action writes the spy, so ev'
\* names the action of the step.
LogStep == ev'.op = "log" /\ nlogs' = nlogs + 1

\* The last call was a log that passed the gate with a level that is a
\* rank (log leaves the Logger as it was, so its threshold is the one the
\* call saw).
AcceptedLog ==
  /\ ev.op = "log"
  /\ LessEq(logger.level, Num(ev.level))
  /\ ev.level \in Ranks

\* The string log hands to the handlers.
Formatted == Format(ev.date, levelToName(Num(ev.level)).val.s, ev.message)

\* The positions of the handler list whose write the last log invoked,
\* each as often as it was invoked.
TimesWritten(j) == Cardinality({k \in DOMAIN ev.writes : ev.writes[k].pos = j})

\* C1: a log whose level is strictly below the threshold invokes no
\* handler's write, sends nothing to the console, does not throw, and
\* changes nothing of the program: no request, no field of the Logger.
C1_SuppressedIsNoop ==
  [][(LogStep /\ logger.level.t = "number" /\ ev'.level < logger.level.n)
       => /\ ev'.writes = <<>>
          /\ ev'.console = <<>>
          /\ ~ev'.threw
          /\ nextId' = nextId
          /\ UNCHANGED progVars]_vars

\* C1, witness: a log below the threshold has been made on a Logger that
\* holds handlers.
C1_Witness ==
  /\ ev.op = "log"
  /\ logger.level.t = "number" /\ ev.level < logger.level.n
  /\ Len(logger._handlers) >= 2

\* C2 (as claimed): after an accepted log with a level that is a rank,
\* every handler of the list has had write invoked exactly once, in the
\* order of the list, each with the one formatted string.
C2_EveryHandlerOnceInOrder ==
  AcceptedLog =>
    ev.writes = [i \in 1..Len(logger._handlers) |-> [pos |-> i, text |-> Formatted]]

\* C3 (as claimed): after an accepted log, a handler whose write threw
\* has not kept any later handler from having its write invoked once.
C3_FailureDoesNotBlock ==
  AcceptedLog =>
    \A i, j \in 1..Len(logger._handlers) :
      (logger._handlers[i] = "faulty" /\ i < j) => TimesWritten(j) = 1

\* The write requests in flight and the ids of those that failed.
WriteRequests == {r \in io : r.id > 0}
FailedIds == {u.id : u \in {v \in uncaught : v.tag \in {"write_open", "write"}}}
DiskIds == {disk[k].id : k \in DOMAIN disk}

\* The last log reached the write of the FileStreamHandler.
FileWritten(e, hs) == \E k \in DOMAIN e.writes : hs[e.writes[k].pos] = "file"

\* C4: the handler is not ready while its initial open is in flight or
\* has failed; a log that reaches the write of a handler that is not
\* ready throws nothing, requests nothing and leaves the file alone; and
\* the file only ever grows by the buffer of a write request, so what was
\* dropped never reaches it.
C4_NotReadyDrops ==
  /\ [](fileHandler.t = "FileStreamHandler" =>
          ((InitOpen \in io \/ [tag |-> "init_open", id |-> 0] \in uncaught)
             => ~fileHandler._ready))
  /\ [][(LogStep /\ fileHandler.t = "FileStreamHandler" /\ ~fileHandler._ready
           /\ FileWritten(ev', logger._handlers))
          => /\ ~ev'.threw
             /\ io' = io /\ nextId' = nextId /\ disk' = disk /\ fds' = fds
             /\ uncaught' = uncaught]_vars
  /\ [][disk' # disk
          => \E r \in io : /\ r.op = "write" /\ r.id \in 1..nextId
                           /\ disk' = Append(disk, [id |-> r.id, buf |-> r.buf])]_vars

\* C4, witness: an accepted log has called the write of the handler
\* while it was not ready, and no request was made.
C4_Witness ==
  /\ ev.op = "log" /\ ~ev.threw
  /\ FileWritten(ev, logger._handlers)
  /\ ~fileHandler._ready
  /\ nextId = 0 /\ io = {InitOpen}

C6_LogsPathWithinRoot ==
  pc \in {"access", "end"} => IsWithin(Paths.root_path, Paths.logs_path)

\* The last segment of p that is not empty, p split at both separators.
FinalSegment(p) ==
  LET names == {i \in 1..Len(p) : ~IsSep(p[i])}
      e == Max(names)
      b == Max({i \in 1..e : IsSep(p[i])} \cup {0}) + 1
  IN IF names = {} THEN <<>> ELSE SubSeq(p, b, e)

\* C7 (as claimed): what resolveToLocalPath returns for the directory is
\* its final segment, and holds no separator.
C7_FinalSegmentOnly ==
  (pc \in {"access", "end"} /\ parameters.directory # <<>>)
    => /\ logging_directory = FinalSegment(parameters.directory)
       /\ \A i \in 1..Len(logging_directory) : ~IsSep(logging_directory[i])

\* C8: the state only moves null -> initializing -> resolving_logs_path
\* -> done and never leaves done; the default Logger exists exactly when
\* the state is done, and then the callback of fs.access has run.
C8_BootstrapOrder ==
  /\ [][PluginState' # PluginState
          => <<PluginState, PluginState'>> \in
               {<<"null", "initializing">>,
                <<"initializing", "resolving_logs_path">>,
                <<"resolving_logs_path", "done">>}]_vars
  /\ []((logger.t = "Logger") <=> (PluginState = "done"))
  /\ [](logger.t = "Logger" => (pc = "end" /\ AccessReq \notin io))

\* C8, witness: the bootstrap is done after an access check that failed.
C8_Witness ==
  /\ PluginState = "done" /\ logger.t = "Logger"
  /\ MkdirReq \in io

\* C9 (as claimed): setLevel with a string that is none of the six names
\* throws and leaves the Logger as it was, and _nameToLevel fails for it.
C9_UnknownNameRejected ==
  [][(ev'.op = "setLevel" /\ ev'.arg.t = "string" /\ ev'.arg.s \notin LevelNames)
       => /\ ev'.threw
          /\ logger' = logger
          /\ ~nameToLevel(ev'.arg).ok]_vars

\* C10: _nameToLevel(_levelToName(r)) = r for each of the five ranks r,
\* for which _levelToName returns; _levelToName throws for every other
\* number.
C10_RoundTrip ==
  /\ ev.op = "levelToName" =>
       IF ev.arg.t = "number" /\ ev.arg.n \in Ranks
       THEN ev.res.ok /\ ev.res.val.t = "string"
       ELSE ~ev.res.ok
  /\ ev.op = "nameToLevel(levelToName)" => ev.res = Return(ev.arg)

\* C10, witness: the round trip has been made from rank 30.
C10_Witness ==
  /\ ev.op = "nameToLevel(levelToName)"
  /\ ev.arg = Num(LogLevel_WARN)

\* C11: _checkLevel gives rank 30 for "WARN" and for "WARNING";
\* _levelToName gives "WARN" for rank 30; and two different names of the
\* map have the same rank only when they are "WARN" and "WARNING".
C11_WarningAlias ==
  /\ (ev.op = "checkLevel" /\ ev.arg \in {Str("WARN"), Str("WARNING")})
       => ev.res = Return(Num(30))
  /\ (ev.op = "levelToName" /\ ev.arg = Num(30)) => ev.res = Return(Str("WARN"))
  /\ (ev.op = "checkLevel" /\ ev.arg.t = "string" /\ ev.arg.s \in LevelNames)
       => /\ ev.res.ok /\ ev.res.val.t = "number"
          /\ \A b \in LevelNames :
               checkLevel(Str(b)) = ev.res
                 => (b = ev.arg.s \/ {b, ev.arg.s} = {"WARN", "WARNING"})

\* C11, witness: _checkLevel has been applied to "WARNING".
C11_Witness ==
  /\ ev.op = "checkLevel"
  /\ ev.arg = Str("WARNING")
  /\ ev.res.ok

\* The console stream of each of the four levels of debug/info/warn/error.
StreamOf(level) ==
  IF level = LogLevel_DEBUG THEN "debug"
  ELSE IF level = LogLevel_INFO THEN "info"
  ELSE IF level = LogLevel_WARN THEN "warn"
  ELSE "error"

\* How many entries of the console output of the last log went to stream.
OnStream(stream) ==
  Cardinality({k \in DOMAIN ev.console :
                 ev.console[k] = [stream |-> stream, text |-> Formatted]})

\* How many ConsoleHandlers had their write invoked by the last log.
ConsoleWrites ==
  Cardinality({k \in DOMAIN ev.writes :
                 logger._handlers[ev.writes[k].pos] = "console"})

\* C12 (as claimed): after an accepted log at DEBUG, INFO, WARN or ERROR,
\* each ConsoleHandler whose write was invoked has put the string once on
\* the generic stream and once on the stream of the level.
C12_LevelStreamOnce ==
  (AcceptedLog /\ ev.level # LogLevel_ALL)
    => /\ OnStream("log") = ConsoleWrites
       /\ OnStream(StreamOf(ev.level)) = ConsoleWrites

\* What a flag of the plugin parameters says: unset ("") stands for its
\* default, true; otherwise the text of the value.
FlagSaysTrue(p) == p \in {"", "true", "True"}

\* The handlers of the default Logger.
Attached == {logger._handlers[i] : i \in DOMAIN logger._handlers}

\* C13 (as claimed): the default Logger holds a ConsoleHandler exactly
\* when "Enable Console Logger" says true, and a FileStreamHandler exactly
\* when "Enable File Logger" says true; with both false it holds nothing.
C13_HandlersPerFlags ==
  logger.t = "Logger"
    => /\ ("console" \in Attached) <=> FlagSaysTrue(parameters.console)
       /\ ("file" \in Attached) <=> FlagSaysTrue(parameters.file)
       /\ (~FlagSaysTrue(parameters.console) /\ ~FlagSaysTrue(parameters.file))
            => logger._handlers = <<>>

\* C14 (as claimed): the initial fs.open of the FileStreamHandler is never
\* carried out while the fs.mkdir of the logs directory is still in
\* flight, so the directory exists when the file is opened.
C14_MkdirBeforeOpen ==
  [][(InitOpen \in io /\ InitOpen \notin io')
       => (MkdirReq \notin io /\ dirExists)]_vars

\* C15 (as claimed): no error of an fs.open or fs.write of the
\* FileStreamHandler is thrown out of its callback into the host.
C15_FileFailureContained ==
  \A u \in uncaught : u.tag \notin {"init_open", "write_open", "write"}

\* C16 (as claimed): while the host runs, the bootstrap in the end
\* reaches the state done or the state err.
C16_BootstrapTerminates ==
  <>(PluginState \in {"done", "err"} \/ ~hostAlive)

\* C17: nothing serializes the writes.  Whatever descriptors are open and
\* whatever else is in flight, the fs.open of any write request can be
\* carried out next and adds its descriptor to those open, and the
\* fs.write of any request can complete next and put its line at the end
\* of the file, whether or not the lines of earlier calls are there.
C17_WritesNotSerialized ==
  /\ \A r \in io :
       (r.op = "open" /\ r.id > 0 /\ hostAlive /\ dirExists)
         => ENABLED (WriteOpenCallback(r) /\ fds' = fds \cup {r.id})
  /\ \A r \in io :
       (r.op = "write" /\ hostAlive)
         => ENABLED (WriteCallback(r)
                      /\ disk' = Append(disk, [id |-> r.id, buf |-> r.buf]))

\* C17, witness: the fs.write of the second call has just completed while
\* the descriptors of both calls were open, and its line is in the file
\* where the line of the first call is not.
C17_Witness ==
  /\ ev = WriteEv({1, 2})
  /\ DiskIds = {2}
  /\ fds = {1}
  /\ \E r \in io : r.op = "write" /\ r.id = 1

\* C18 (as claimed): the level of the Logger is always a number, and one
\* of the five ranks.
C18_ThresholdIsRank ==
  logger.t = "Logger" => (logger.level.t = "number" /\ logger.level.n \in Ranks)

\* C19: on the Logger, a call of log (suppressed, accepted or throwing)
\* changes no field; addHandler keeps the level and appends exactly the
\* handler given to the list; setLevel keeps the list; and no other step
\* changes the Logger.
C19_LoggerFrame ==
  [][logger.t = "Logger"
       => /\ LogStep => logger' = logger
          /\ ev'.op = "addHandler"
               => /\ logger'.level = logger.level
                  /\ logger'._handlers = Append(logger._handlers, ev'.arg)
          /\ ev'.op = "setLevel" => logger'._handlers = logger._handlers
          /\ logger' # logger => ev'.op \in {"addHandler", "setLevel"}]_vars

\* C19, witness: after a setLevel and an addHandler, a call of log has
\* thrown; the Logger holds the level set and the handler added.
C19_Witness ==
  /\ ev.op = "log" /\ ev.threw
  /\ logger.level = Num(LogLevel_DEBUG)
  /\ logger._handlers = <<"console", "file", "faulty">>

\* C20 (as claimed): while the host runs, when no request of a write is
\* in flight, no descriptor the FileStreamHandler opened is still open.
C20_NoDescriptorLeft ==
  (hostAlive /\ WriteRequests = {}) => fds = {}

====
